---- MODULE Spec2Model ----
(***************************************************************************)
(* Model of the three profile-aggregation scripts of the repository:       *)
(*   ultrankfrq.py        (variant "v0", the original script)              *)
(*   ultrankfrq_MS_v2.py  (variant "MS_v2", the revised script)            *)
(*   RIs_v1.py            (variant "RIs_v1", run_ultrankfrq)               *)
(*                                                                         *)
(* Numbers.  A float is modelled in fixed point: an integer count of units *)
(* of 1/FloatOne, with FloatOne = 10^8, so that score_epsilon = 1e-8 is    *)
(* exactly one unit; quotients round towards minus infinity and a square   *)
(* root rounds up (the root of a positive number stays positive, as in     *)
(* IEEE arithmetic).  NaN and Inf are two values outside the range of the  *)
(* data.  Distances are counted on a grid of DistUnitsPerMetre points per  *)
(* metre, so that the 0.5 m step is 3 grid units and two distinct          *)
(* distances fit strictly between two consecutive axis points.             *)
(***************************************************************************)
EXTENDS Integers, Sequences, FiniteSets, TLC

\* ---------------------------------------------------------------- bounds
MaxFiles == 2
MaxSheets == 3
NRows == 3
MaxDist == 4

\* ------------------------------------------------------- number model
FloatOne == 10^8
DistUnitsPerMetre == 2 * 3
NaN == -1000000
Inf == 2000000000
Text == -1000001
ZeroDivisionError == -1000002

common_distance_step == DistUnitsPerMetre \div 2
score_epsilon == FloatOne \div (10^8)

IsNaN(x) == x = NaN
IsFinite(x) == ~IsNaN(x) /\ x # Inf

\* pd.to_numeric(..., errors="coerce"): an unparseable cell becomes NaN
ToNumeric(c) == IF c = Text THEN NaN ELSE c
ToNumericCol(col) == [i \in 1..Len(col) |-> ToNumeric(col[i])]

FSub(a, b) == IF IsNaN(a) \/ IsNaN(b) THEN NaN ELSE a - b

\* Python float division: a zero divisor raises ZeroDivisionError
PyDiv(a, b) ==
    IF b = 0 THEN ZeroDivisionError
    ELSE IF IsNaN(a) \/ IsNaN(b) THEN NaN
    ELSE (a * FloatOne) \div b

\* numpy float64 division: never raises
NpDiv(a, b) ==
    IF IsNaN(a) \/ IsNaN(b) THEN NaN
    ELSE IF b = 0 THEN (IF a = 0 THEN NaN ELSE Inf)
    ELSE (a * FloatOne) \div b

\* Python max(a, b): keeps a unless b > a; a comparison with NaN is False
PyMax(a, b) == IF ~IsNaN(a) /\ ~IsNaN(b) /\ b > a THEN b ELSE a

RECURSIVE SumSeq(_)
SumSeq(s) == IF s = <<>> THEN 0 ELSE Head(s) + SumSeq(Tail(s))

RECURSIVE SumSquares(_)
SumSquares(s) == IF s = <<>> THEN 0 ELSE Head(s) * Head(s) + SumSquares(Tail(s))

DropNaN(s) == SelectSeq(s, LAMBDA v : ~IsNaN(v))

SeqMax(s) == CHOOSE m \in {s[i] : i \in 1..Len(s)} : \A i \in 1..Len(s) : s[i] <= m
SeqMin(s) == CHOOSE m \in {s[i] : i \in 1..Len(s)} : \A i \in 1..Len(s) : m <= s[i]

\* np.nanmax / np.nanmin, Series.max / Series.min (skipna): NaN when all are NaN
NanMax(s) == IF DropNaN(s) = <<>> THEN NaN ELSE SeqMax(DropNaN(s))
NanMin(s) == IF DropNaN(s) = <<>> THEN NaN ELSE SeqMin(DropNaN(s))

\* mean(skipna=True): NaN when nothing is left
Mean(s) ==
    LET v == DropNaN(s)
    IN  IF v = <<>> THEN NaN ELSE SumSeq(v) \div Len(v)

\* the least r with r*r*den >= num
SqrtUp(num, den) ==
    CHOOSE r \in 0..num : /\ r * r * den >= num
                          /\ (r = 0 \/ (r - 1) * (r - 1) * den < num)

\* std(skipna=True), ddof = 1: NaN with fewer than two values
Std(s) ==
    LET v == DropNaN(s)
        n == Len(v)
    IN  IF n < 2 THEN NaN
        ELSE SqrtUp(n * SumSquares(v) - SumSeq(v) * SumSeq(v), n * (n - 1))

\* ------------------------------------------------------ the common axis
ArangeLenInclusive(start, stop, step) ==
    IF stop >= start THEN (stop - start) \div step + 1 ELSE 0

\* len(np.arange(start, stop, step)) = ceil((stop - start) / step)
ArangeLen(start, stop, step) ==
    IF stop > start THEN (stop - start + step - 1) \div step ELSE 0

Arange(start, stop, step) ==
    [i \in 1..ArangeLen(start, stop, step) |-> start + (i - 1) * step]

AllNaN(col) == \A i \in 1..Len(col) : IsNaN(col[i])

\* the range check of a sheet whose distances are not all NaN
RangeTooShort(distance) ==
    \/ ~IsFinite(NanMin(distance))
    \/ ~IsFinite(NanMax(distance))
    \/ NanMax(distance) - NanMin(distance) < common_distance_step

CommonDist(distance) ==
    Arange(NanMin(distance), NanMax(distance) + common_distance_step,
           common_distance_step)

\* ---------------------------------------------- per-column interpolation
\* the rows where both the distance and the value are present, in row order
Mask(distance, y) ==
    SelectSeq([i \in 1..Len(distance) |-> i],
              LAMBDA i : ~IsNaN(distance[i]) /\ ~IsNaN(y[i]))

Take(col, idx) == [k \in 1..Len(idx) |-> col[idx[k]]]

RECURSIVE SortedSeq(_)
SortedSeq(S) ==
    IF S = {} THEN <<>>
    ELSE LET m == CHOOSE x \in S : \A z \in S : x <= z
         IN  <<m>> \o SortedSeq(S \ {m})

\* df_xy.groupby("d", as_index=False).mean(): one row per distinct distance,
\* keys ascending, the value the mean of the group
GroupByMean(xv, yv) ==
    LET keys == SortedSeq({xv[k] : k \in 1..Len(xv)})
        grp(d) == SelectSeq([k \in 1..Len(xv) |-> k], LAMBDA k : xv[k] = d)
    IN  [d |-> keys,
         y |-> [j \in 1..Len(keys) |-> Mean(Take(yv, grp(keys[j])))]]

\* a stable sort of the row indices by distance (sort_values, np.argsort mergesort)
RECURSIVE InsertIdx(_, _, _)
InsertIdx(sorted, xv, k) ==
    IF sorted = <<>> THEN <<k>>
    ELSE IF xv[k] < xv[Head(sorted)] THEN <<k>> \o sorted
    ELSE <<Head(sorted)>> \o InsertIdx(Tail(sorted), xv, k)

RECURSIVE ArgSort(_, _)
ArgSort(xv, n) == IF n = 0 THEN <<>> ELSE InsertIdx(ArgSort(xv, n - 1), xv, n)

SortValues(tab) ==
    LET idx == ArgSort(tab.d, Len(tab.d))
    IN  [d |-> Take(tab.d, idx), y |-> Take(tab.y, idx)]

\* what a response column hands to interp1d; ok = FALSE when the column is dropped
InterpArgs(variant, distance, y) ==
    LET idx == Mask(distance, y)
        raw == [d |-> Take(distance, idx), y |-> Take(y, idx)]
        grouped == SortValues(GroupByMean(raw.d, raw.y))
    IN  IF Len(idx) < 2 THEN [ok |-> FALSE, d |-> <<>>, y |-> <<>>]
        ELSE IF variant = "v0" THEN [ok |-> TRUE, d |-> raw.d, y |-> raw.y]
        ELSE IF Len(grouped.d) < 2 THEN [ok |-> FALSE, d |-> <<>>, y |-> <<>>]
        ELSE [ok |-> TRUE, d |-> grouped.d, y |-> grouped.y]

\* slope * (x_new - x_lo) + y_lo on the segment (i, i+1); a zero-length segment
\* divides by zero and the product with x_new - x_lo = 0 is NaN
Segment(tab, i, x) ==
    IF tab.d[i + 1] = tab.d[i] THEN NaN
    ELSE tab.y[i] + ((x - tab.d[i]) * (tab.y[i + 1] - tab.y[i]))
                        \div (tab.d[i + 1] - tab.d[i])

\* interp1d._call_linear: searchsorted (left), clipped to 1..len-1
ScipyLinear(tab, x) ==
    LET n == Len(tab.d)
        cnt == Cardinality({k \in 1..n : tab.d[k] < x})
        hi == IF cnt < 1 THEN 1 ELSE IF cnt > n - 1 THEN n - 1 ELSE cnt
    IN  Segment(tab, hi, x)

\* np.interp: the last j with xp[j] <= x; a knot returns its own value
NumpyInterp(tab, x) ==
    LET n == Len(tab.d)
        j == Cardinality({k \in 1..n : tab.d[k] <= x})
    IN  IF j = n THEN tab.y[n]
        ELSE IF tab.d[j] = x THEN tab.y[j]
        ELSE Segment(tab, j, x)

\* f = interp1d(x, y, kind="linear", bounds_error=False, fill_value=nan,
\* assume_sorted=...); f(x_new).  Which linear routine runs depends on the
\* SciPy build; the two agree on strictly increasing x.
Interp1d(impl, assume_sorted, args, x_new) ==
    LET tab == IF assume_sorted THEN [d |-> args.d, y |-> args.y]
               ELSE SortValues([d |-> args.d, y |-> args.y])
        n == Len(tab.d)
        at(x) == IF x < tab.d[1] \/ x > tab.d[n] THEN NaN
                 ELSE IF impl = "scipy_linear" THEN ScipyLinear(tab, x)
                 ELSE NumpyInterp(tab, x)
    IN  [i \in 1..Len(x_new) |-> at(x_new[i])]

InterpolateColumn(variant, impl, distance, y, common_dist) ==
    Interp1d(impl, variant # "v0", InterpArgs(variant, distance, y), common_dist)

\* v0 iterates line_data.select_dtypes(include=[np.number]): a column holding
\* text is not numeric; v1 and v2 coerce every column first
NumericColumns(variant, line_data) ==
    IF variant = "v0"
    THEN SelectSeq(line_data, LAMBDA col : \A i \in 1..Len(col) : col[i] # Text)
    ELSE [k \in 1..Len(line_data) |-> ToNumericCol(line_data[k])]

\* interpolated_lines: the columns that were not dropped, in column order
RECURSIVE InterpolatedLines(_, _, _, _, _)
InterpolatedLines(variant, impl, distance, cols, common_dist) ==
    IF cols = <<>> THEN <<>>
    ELSE LET rest == InterpolatedLines(variant, impl, distance, Tail(cols), common_dist)
         IN  IF InterpArgs(variant, distance, Head(cols)).ok
             THEN <<InterpolateColumn(variant, impl, distance, Head(cols), common_dist)>>
                  \o rest
             ELSE rest

\* ------------------------------------------------- profiles and the score
Row(lines, i) == [k \in 1..Len(lines) |-> lines[k][i]]

\* interpolated_df.mean(axis=1, skipna=True)
RepProf(lines, n) == [i \in 1..n |-> Mean(Row(lines, i))]

\* interpolated_df.std(axis=1, skipna=True)
StdProf(lines, n) == [i \in 1..n |-> Std(Row(lines, i))]

MeanStd(std_prof) == Mean(std_prof)

Amplitude(rep_prof) == FSub(NanMax(rep_prof), NanMin(rep_prof))

Score(variant, mean_std, amplitude) ==
    IF variant = "v0"
    THEN (IF mean_std # 0 THEN NpDiv(amplitude, mean_std) ELSE 0)
    ELSE IF variant = "MS_v2"
    THEN (IF IsFinite(amplitude)
          THEN PyDiv(amplitude, PyMax(mean_std, score_epsilon)) ELSE 0)
    ELSE PyDiv(amplitude, PyMax(mean_std, score_epsilon))

\* the body of the loop over the sheets of a file, for one sheet: what the
\* sheet contributes.  kind = "skip": nothing; "raise": an exception leaves the
\* loop; "ok": a score record, an output table and (plotted) a plotted series
Nothing(kind) ==
    [kind |-> kind, mean_std |-> NaN, amplitude |-> NaN, score |-> NaN,
     plotted |-> FALSE]

SheetResult(variant, impl, sheet) ==
    LET distance == IF variant = "v0" THEN sheet.distance
                    ELSE ToNumericCol(sheet.distance)
        cols == NumericColumns(variant, sheet.line_data)
        common_dist == CommonDist(distance)
        lines == InterpolatedLines(variant, impl, distance, cols, common_dist)
        rep_prof == RepProf(lines, Len(common_dist))
        std_prof == StdProf(lines, Len(common_dist))
        mean_std == MeanStd(std_prof)
        amplitude == Amplitude(rep_prof)
        score == Score(variant, mean_std, amplitude)
    IN  IF ~sheet.readable
        THEN Nothing(IF variant = "v0" THEN "raise" ELSE "skip")
        ELSE IF variant # "v0" /\ Len(sheet.line_data) < 1 THEN Nothing("skip")
        ELSE IF variant = "v0" /\ \E i \in 1..Len(distance) : distance[i] = Text
        THEN Nothing("raise")
        ELSE IF AllNaN(distance) THEN Nothing("skip")
        ELSE IF RangeTooShort(distance) THEN Nothing("skip")
        ELSE IF variant # "v0" /\ lines = <<>> THEN Nothing("skip")
        ELSE IF score = ZeroDivisionError THEN Nothing("raise")
        ELSE [kind |-> "ok", mean_std |-> mean_std, amplitude |-> amplitude,
              score |-> score,
              plotted |-> variant = "v0" \/ ~AllNaN(rep_prof)]

\* ---------------------------------------------------------------- ranking
\* the key comparison of sorted(..., key=lambda x: x[1]["score"]): float <
KeyLess(a, b) == ~IsNaN(a.score) /\ ~IsNaN(b.score) /\ a.score < b.score

Reverse(s) == [i \in 1..Len(s) |-> s[Len(s) + 1 - i]]

\* list.sort's count_run: the length of the run that starts the list, and
\* whether it is strictly descending
RECURSIVE RunLen(_, _, _)
RunLen(s, n, descending) ==
    IF n = Len(s) THEN n
    ELSE IF KeyLess(s[n + 1], s[n]) = descending THEN RunLen(s, n + 1, descending)
    ELSE n

CountRun(s) ==
    IF Len(s) < 2 THEN [n |-> Len(s), descending |-> FALSE]
    ELSE LET desc == KeyLess(s[2], s[1])
         IN  [n |-> RunLen(s, 2, desc), descending |-> desc]

\* list.sort's binarysort: where the pivot goes in the sorted prefix s[1..r]
RECURSIVE BinaryPos(_, _, _, _)
BinaryPos(s, pivot, l, r) ==
    IF l >= r THEN l
    ELSE LET p == l + (r - l) \div 2
         IN  IF KeyLess(pivot, s[p + 1]) THEN BinaryPos(s, pivot, l, p)
             ELSE BinaryPos(s, pivot, p + 1, r)

RECURSIVE BinarySort(_, _)
BinarySort(s, start) ==
    IF start > Len(s) THEN s
    ELSE LET pos == BinaryPos(s, s[start], 0, start - 1)
             moved == SubSeq(s, 1, pos) \o <<s[start]>> \o SubSeq(s, pos + 1, start - 1)
                      \o SubSeq(s, start + 1, Len(s))
         IN  BinarySort(moved, start + 1)

\* sorted(records, key=score, reverse=True): reverse, sort ascending, reverse
PySorted(records) ==
    LET rev == Reverse(records)
        run == CountRun(rev)
        first == IF run.descending
                 THEN Reverse(SubSeq(rev, 1, run.n)) \o SubSeq(rev, run.n + 1, Len(rev))
                 ELSE rev
    IN  Reverse(BinarySort(first, run.n + 1))

\* ---------------------------------------------------------------- inputs
Variants == {"v0", "MS_v2", "RIs_v1"}
LinearImpls == {"scipy_linear", "np_interp"}

DistCells == 0..MaxDist \cup {NaN}
ValCells == {0, 6, NaN}

Sheet(readable, distance, line_data) ==
    [readable |-> readable, distance |-> distance, line_data |-> line_data]

\* the sheets the batch driver is run on
Sheets ==
    { Sheet(TRUE, <<0, 3, 6>>, << <<0, 6, 12>>, <<6, 6, 6>> >>),
      Sheet(TRUE, <<0, 3, 6>>, << <<0, 6, 12>>, <<0, 6, 12>> >>),
      Sheet(TRUE, <<0, 3, 6>>, << <<0, 6, 12>>, <<Text, Text, 6>> >>),
      Sheet(TRUE, <<3, 0, 3>>, << <<6, 0, 18>>, <<6, 0, 18>> >>),
      Sheet(TRUE, <<0, 4, 5>>, << <<NaN, 0, 6>> >>),
      Sheet(TRUE, <<NaN, Text, NaN>>, << <<0, 6, 12>> >>),
      Sheet(TRUE, <<1, 2, NaN>>, << <<0, 6, 12>> >>),
      Sheet(TRUE, <<0, 3, 6>>, << >>),
      Sheet(FALSE, << >>, << >>) }

\* what the body of the sheet loop can make of a sheet pd.read_excel returns,
\* under either linear routine of the SciPy build
SheetOutcomes ==
    [v \in Variants |->
        {SheetResult(v, impl, sheet) : sheet \in Sheets, impl \in LinearImpls}]

\* ----------------------------------------------------------------- state
VARIABLES
    variant,        \* which script runs
    pc,             \* where the script is
    excel_files,    \* how many files were discovered (they are named 1..n)
    file_idx,       \* the file of the current iteration
    sheet_names,    \* how many sheets the open file has (they are named 1..n)
    sheet_idx,      \* the next sheet of the open file
    output_data,    \* the sheet names that have an output table, in insertion order
    representativeness_scores,  \* the score records, in insertion order
    figure,         \* the series on the pyplot surface
    artifacts,      \* the files in the output folder: [file, kind]
    ranking,        \* the ranking computed for the current file
    printed,        \* the top-level messages printed
    exit_code,      \* "running", "0" (normal end), "1" (uncaught exception)
    df_distance,    \* a sheet's distance column (single-sheet runs)
    df_y,           \* a sheet's response column (single-sheet runs)
    axis,           \* common_dist of that sheet
    f_args,         \* what that column handed to interp1d
    f_out           \* the interpolated line

driver_vars == <<excel_files, file_idx, sheet_names, sheet_idx, output_data,
                 representativeness_scores, figure, artifacts, ranking, printed,
                 exit_code>>
sheet_vars == <<df_distance, df_y, axis, f_args, f_out>>
vars == <<variant, pc, driver_vars, sheet_vars>>

NoArgs == [ok |-> FALSE, d |-> <<>>, y |-> <<>>]

\* plt.clf() / plt.close(): the next plot starts from an empty surface
ClfForgotten(fig) == fig

Clf(fig) == <<>>

\* a file of the output folder; its content is the table (or the surface) in
\* memory when it is written
Artifact(file, kind) == [file |-> file, kind |-> kind]

Init ==
    /\ variant \in Variants
    /\ pc = "start"
    /\ excel_files = 0
    /\ file_idx = 0
    /\ sheet_names = 0
    /\ sheet_idx = 0
    /\ output_data = <<>>
    /\ representativeness_scores = <<>>
    /\ figure = <<>>
    /\ artifacts = {}
    /\ ranking = <<>>
    /\ printed = {}
    /\ exit_code = "running"
    /\ df_distance = <<>>
    /\ df_y = <<>>
    /\ axis = <<>>
    /\ f_args = NoArgs
    /\ f_out = <<>>

\* the uncaught exception: the interpreter prints the traceback, which names
\* the call that raised, and exits 1
Raise(where) ==
    /\ pc' = "raised"
    /\ exit_code' = "1"
    /\ printed' = printed \cup {where}

\* file discovery and the "no files" exit
Discover ==
    /\ pc = "start"
    /\ \E n \in 0..MaxFiles :
        /\ excel_files' = n
        /\ IF n > 0
           THEN /\ pc' = "open"
                /\ file_idx' = 1
                /\ UNCHANGED <<printed, exit_code>>
           ELSE IF variant = "v0"
           THEN /\ pc' = "done"
                /\ exit_code' = "0"
                /\ UNCHANGED <<file_idx, printed>>
           ELSE /\ pc' = "exited"
                /\ exit_code' = "0"
                /\ printed' = printed \cup {"No .xlsx files found in input folder. Exiting."}
                /\ UNCHANGED file_idx
    /\ UNCHANGED <<variant, sheet_names, sheet_idx, output_data,
                   representativeness_scores, figure, artifacts, ranking, sheet_vars>>

\* pd.ExcelFile(excel_path) and the two dictionaries
OpenFile ==
    /\ pc = "open"
    /\ \E ok \in BOOLEAN, n \in 1..MaxSheets :
        IF ok
        THEN /\ sheet_names' = n
             /\ sheet_idx' = 1
             /\ output_data' = <<>>
             /\ representativeness_scores' = <<>>
             /\ pc' = "sheets"
             /\ UNCHANGED <<exit_code, printed>>
        ELSE /\ IF variant = "v0" THEN Raise("Traceback: pd.ExcelFile")
                ELSE pc' = "next" /\ UNCHANGED <<exit_code, printed>>
             /\ UNCHANGED <<sheet_names, sheet_idx, output_data,
                            representativeness_scores>>
    /\ UNCHANGED <<variant, excel_files, file_idx, figure, artifacts,
                   ranking, sheet_vars>>

\* one iteration of the loop over excel.sheet_names, on the sheet that
\* pd.read_excel returns
ProcessSheet ==
    /\ pc = "sheets"
    /\ sheet_idx <= sheet_names
    /\ \E r \in SheetOutcomes[variant] :
            /\ IF r.kind = "raise" THEN Raise("Traceback: sheet loop")
               ELSE pc' = pc /\ UNCHANGED <<exit_code, printed>>
            /\ IF r.kind = "ok"
               THEN /\ representativeness_scores' =
                         Append(representativeness_scores,
                                [sheet |-> sheet_idx, mean_std |-> r.mean_std,
                                 amplitude |-> r.amplitude, score |-> r.score])
                    /\ output_data' = Append(output_data, sheet_idx)
                    /\ figure' = IF r.plotted
                                 THEN Append(figure, [file |-> file_idx, sheet |-> sheet_idx])
                                 ELSE figure
               ELSE UNCHANGED <<representativeness_scores, output_data, figure>>
    /\ sheet_idx' = sheet_idx + 1
    /\ UNCHANGED <<variant, excel_files, file_idx, sheet_names, artifacts,
                   ranking, sheet_vars>>

\* what follows the sheet loop: the output block and the ranking
FinishFile ==
    /\ pc = "sheets"
    /\ sheet_idx > sheet_names
    /\ \E xlsx_ok \in BOOLEAN, csv_ok \in BOOLEAN, png_ok \in BOOLEAN :
        LET xlsx == Artifact(file_idx, "xlsx")
            csv == Artifact(file_idx, "csv")
            png == Artifact(file_idx, "png")
            ranked == PySorted(representativeness_scores)
        IN  IF variant # "v0" /\ output_data = <<>>
            THEN /\ figure' = Clf(figure)
                 /\ pc' = "next"
                 /\ UNCHANGED <<artifacts, ranking, exit_code, printed>>
            ELSE IF variant = "MS_v2"
            THEN /\ artifacts' = artifacts
                        \cup (IF xlsx_ok THEN {xlsx} ELSE {})
                        \cup (IF csv_ok THEN {csv} ELSE {})
                        \cup (IF png_ok THEN {png} ELSE {})
                 /\ figure' = Clf(figure)
                 /\ ranking' = ranked
                 /\ pc' = "next"
                 /\ UNCHANGED <<exit_code, printed>>
            ELSE IF variant = "RIs_v1"
            THEN IF ~xlsx_ok
                 THEN Raise("Traceback: pd.ExcelWriter") /\ UNCHANGED <<artifacts, figure, ranking>>
                 ELSE IF ~csv_ok
                 THEN Raise("Traceback: to_csv") /\ artifacts' = artifacts \cup {xlsx}
                            /\ UNCHANGED <<figure, ranking>>
                 ELSE IF ~png_ok
                 THEN Raise("Traceback: plt.savefig") /\ artifacts' = artifacts \cup {xlsx, csv}
                            /\ UNCHANGED <<figure, ranking>>
                 ELSE /\ artifacts' = artifacts \cup {xlsx, csv, png}
                      /\ figure' = Clf(figure)
                      /\ ranking' = ranked
                      /\ pc' = "next"
                      /\ UNCHANGED <<exit_code, printed>>
            ELSE IF ~xlsx_ok
                 THEN Raise("Traceback: pd.ExcelWriter") /\ UNCHANGED <<artifacts, figure, ranking>>
                 ELSE IF ~png_ok
                 THEN Raise("Traceback: plt.savefig") /\ artifacts' = artifacts \cup {xlsx}
                            /\ UNCHANGED <<figure, ranking>>
                 ELSE /\ artifacts' = artifacts \cup {xlsx, png}
                      /\ figure' = Clf(figure)
                      /\ ranking' = ranked
                      /\ pc' = "next"
                      /\ UNCHANGED <<exit_code, printed>>
    /\ UNCHANGED <<variant, excel_files, file_idx, sheet_names, sheet_idx,
                   output_data, representativeness_scores, sheet_vars>>

\* the head of the loop over excel_files.  The names bound by the iteration
\* that ended (the dictionaries, the ranking) are rebound before they are read
\* again; the model drops their values here.
NextFile ==
    /\ pc = "next"
    /\ IF file_idx < excel_files
       THEN /\ pc' = "open"
            /\ file_idx' = file_idx + 1
            /\ UNCHANGED exit_code
       ELSE /\ pc' = "done"
            /\ exit_code' = "0"
            /\ UNCHANGED file_idx
    /\ sheet_names' = 0
    /\ sheet_idx' = 0
    /\ output_data' = <<>>
    /\ representativeness_scores' = <<>>
    /\ ranking' = <<>>
    /\ UNCHANGED <<variant, excel_files, figure, artifacts, printed, sheet_vars>>

Next == Discover \/ OpenFile \/ ProcessSheet \/ FinishFile \/ NextFile

Spec == Init /\ [][Next]_vars

\* ------------------------------------------- one response column of a sheet
\* The per-sheet steps on one sheet and one of its response columns, every cell
\* drawn from DistCells / ValCells.
InitSheet ==
    /\ variant \in Variants
    /\ pc = "read"
    /\ df_distance \in [1..NRows -> DistCells]
    /\ df_y = <<>>
    /\ axis = <<>>
    /\ f_args = NoArgs
    /\ f_out = <<>>
    /\ excel_files = 0
    /\ file_idx = 0
    /\ sheet_names = 0
    /\ sheet_idx = 0
    /\ output_data = <<>>
    /\ representativeness_scores = <<>>
    /\ figure = <<>>
    /\ artifacts = {}
    /\ ranking = <<>>
    /\ printed = {}
    /\ exit_code = "running"

\* the checks on the distance column and common_dist
BuildAxis ==
    /\ pc = "read"
    /\ LET distance == IF variant = "v0" THEN df_distance ELSE ToNumericCol(df_distance)
       IN  IF AllNaN(distance) \/ RangeTooShort(distance)
           THEN pc' = "skipped" /\ UNCHANGED axis
           ELSE pc' = "axis" /\ axis' = CommonDist(distance)
    /\ UNCHANGED <<variant, driver_vars, df_distance, df_y, f_args, f_out>>

\* the body of the loop over line_data.columns
Interpolate ==
    /\ pc = "axis"
    /\ \E impl \in LinearImpls, y \in [1..NRows -> ValCells] :
        LET distance == IF variant = "v0" THEN df_distance ELSE ToNumericCol(df_distance)
            cols == NumericColumns(variant, <<y>>)
            args == InterpArgs(variant, distance, cols[1])
        IN  /\ df_y' = y
            /\ f_args' = args
            /\ IF args.ok
               THEN /\ f_out' = InterpolateColumn(variant, impl, distance, cols[1], axis)
                    /\ pc' = "interpolated"
               ELSE /\ pc' = "dropped"
                    /\ UNCHANGED f_out
    /\ UNCHANGED <<variant, driver_vars, df_distance, axis>>

NextSheet == BuildAxis \/ Interpolate

SheetSpec == InitSheet /\ [][NextSheet]_vars

\* ------------------------------------------------------------- properties
\* a defined number compared with a defined number; NaN compares with nothing
GreaterEq(a, b) == IsFinite(a) /\ IsFinite(b) /\ a >= b

\* the rows of the sheet where the distance is d and the response is present
RowsAt(d) ==
    SelectSeq([i \in 1..Len(df_distance) |-> i],
              LAMBDA i : df_distance[i] = d /\ ~IsNaN(df_y[i]))

\* the distances of the sheet that are present
ValidDistances == {df_distance[i] : i \in 1..Len(df_distance)} \ {NaN, Text}

MinDist == CHOOSE m \in ValidDistances : \A d \in ValidDistances : m <= d
MaxDistOfSheet == CHOOSE m \in ValidDistances : \A d \in ValidDistances : d <= m

\* C1: in RIs_v1.py and ultrankfrq_MS_v2.py no failure of a file, a sheet or a
\* write terminates the batch: the driver never ends with an uncaught
\* exception, and when it returns every discovered file has been processed.
C1_NoFailureEndsTheBatch ==
    variant \in {"MS_v2", "RIs_v1"} =>
        /\ pc # "raised"
        /\ exit_code # "1"
        /\ (pc = "done" => file_idx = excel_files)

\* C2: in RIs_v1.py and ultrankfrq_MS_v2.py every score record holds a score
\* that is a defined number and is at least 0.
C2_ScoreDefinedAndNonNegative ==
    variant \in {"MS_v2", "RIs_v1"} =>
        \A i \in 1..Len(representativeness_scores) :
            /\ IsFinite(representativeness_scores[i].score)
            /\ representativeness_scores[i].score >= 0

C4_ArtifactsOnlyForSurvivingSheets ==
    /\ (\E a \in artifacts : a.file = file_idx /\ pc \in {"next", "raised"})
            => output_data # <<>>
    /\ pc = "next" =>
        /\ [i \in 1..Len(representativeness_scores) |->
                representativeness_scores[i].sheet] = output_data
        /\ {ranking[i].sheet : i \in 1..Len(ranking)}
                = {output_data[i] : i \in 1..Len(output_data)}
        /\ Len(ranking) = Len(output_data)
    /\ (printed \cap {"Traceback: pd.ExcelWriter", "Traceback: plt.savefig"} # {})
            => output_data # <<>>

\* C5: a record whose mean_std is exactly 0 holds the score amplitude / epsilon.
C5_ZeroMeanStdDividesByEpsilon ==
    \A i \in 1..Len(representativeness_scores) :
        LET rec == representativeness_scores[i]
        IN  rec.mean_std = 0 =>
                rec.score = (rec.amplitude * FloatOne) \div score_epsilon

\* C6: in RIs_v1.py and ultrankfrq_MS_v2.py the ranking of a file is a
\* permutation of its score records in non-increasing order of score, records
\* of equal score keep their sheet order, and the best sheet (the first of the
\* ranking) is the first sheet whose score is the maximum of all the scores.
C6_RankingDescendingAndStable ==
    (variant \in {"MS_v2", "RIs_v1"} /\ pc = "next" /\ output_data # <<>>) =>
        LET recs == representativeness_scores
            n == Len(recs)
        IN  /\ Len(ranking) = n
            /\ {ranking[i] : i \in 1..n} = {recs[i] : i \in 1..n}
            /\ \A i \in 1..n : \A j \in (i + 1)..n :
                    /\ GreaterEq(ranking[i].score, ranking[j].score)
                    /\ (ranking[i].score = ranking[j].score
                            => ranking[i].sheet < ranking[j].sheet)
            /\ \A k \in 1..n :
                    /\ GreaterEq(ranking[1].score, recs[k].score)
                    /\ (recs[k].score = ranking[1].score
                            => ranking[1].sheet <= recs[k].sheet)

\* C7: when no input file is discovered the program prints the "no files
\* found" message, ends at once with a non-error exit and writes no artifact.
C7_NoFilesMessageAndCleanExit ==
    (pc # "start" /\ excel_files = 0) =>
        /\ "No .xlsx files found in input folder. Exiting." \in printed
        /\ exit_code = "0"
        /\ artifacts = {}

\* C8: in RIs_v1.py and ultrankfrq_MS_v2.py a record whose amplitude is
\* undefined holds the score 0, and any other record holds
\* amplitude / max(mean_std, epsilon).
C8_UndefinedAmplitudeScoresZero ==
    variant \in {"MS_v2", "RIs_v1"} =>
        \A i \in 1..Len(representativeness_scores) :
            LET rec == representativeness_scores[i]
            IN  IF IsNaN(rec.amplitude) THEN rec.score = 0
                ELSE rec.score = PyDiv(rec.amplitude,
                                       PyMax(rec.mean_std, score_epsilon))

\* C9 as stated: the axis of a sheet that passes the range check has exactly
\* floor((max_dist - min_dist) / step) + 2 points, whether or not the range is
\* an exact multiple of the step.
C9_AxisLengthAlwaysPlusTwo ==
    pc \in {"axis", "interpolated", "dropped"} =>
        Len(axis) = (MaxDistOfSheet - MinDist) \div common_distance_step + 2

\* C9 amended: the axis of a sheet that passes the range check starts at
\* min_dist, ascends in increments of step, and has
\* floor((max_dist - min_dist) / step) + 1 points when the range is an exact
\* multiple of the step and floor((max_dist - min_dist) / step) + 2 points when
\* it is not.
C9_AxisLengthByDivisibility ==
    pc \in {"axis", "interpolated", "dropped"} =>
        LET range == MaxDistOfSheet - MinDist
        IN  /\ range >= common_distance_step
            /\ Len(axis) = range \div common_distance_step
                            + (IF range % common_distance_step = 0 THEN 1 ELSE 2)
            /\ axis[1] = MinDist
            /\ \A i \in 1..(Len(axis) - 1) :
                    axis[i + 1] = axis[i] + common_distance_step

\* C9 witness: an axis was built for a range that is an exact multiple of the
\* step, and its last point is max_dist.
C9_AxisOverExactMultiple ==
    /\ pc = "axis"
    /\ (MaxDistOfSheet - MinDist) % common_distance_step = 0
    /\ axis[Len(axis)] = MaxDistOfSheet

\* C10: the pairs a response column hands to the interpolator have strictly
\* increasing distances, cover every distance at which the column has a valid
\* value, and carry at each distance the mean of the column's valid values at
\* that distance.
C10_InterpolatorGetsDedupedSortedPairs ==
    pc = "interpolated" =>
        /\ \A k \in 1..(Len(f_args.d) - 1) : f_args.d[k] < f_args.d[k + 1]
        /\ {f_args.d[k] : k \in 1..Len(f_args.d)}
                = {d \in ValidDistances : RowsAt(d) # <<>>}
        /\ \A k \in 1..Len(f_args.d) :
                f_args.y[k] = Mean(Take(df_y, RowsAt(f_args.d[k])))

====
